---- MODULE Spec2Model ----
(***************************************************************************)
(* A model of src/bot.py: the membership-gated request pipeline of the     *)
(* SoundCloud downloader bot.                                              *)
(*                                                                         *)
(* The Application is built without concurrent updates (bot.py:649), so    *)
(* the dispatcher awaits each handler before it fetches the next update:   *)
(* one action is one whole handler; SpecDispatch alone cuts handle_message  *)
(* at the await of its download.  Everything the outside world decides     *)
(* inside a handler (what the platform answers, whether a call raises, what*)
(* the download adapter returns) is an input of the action, drawn with \E. *)
(* A platform call is given a failing outcome wherever the code itself     *)
(* wraps it in a try block; an unguarded call that raises only ends the    *)
(* handler early and is not modelled.                                      *)
(***************************************************************************)
EXTENDS Integers, Sequences, FiniteSets, TLC

\* ---------------------------------------------------------------- bounds
MaxChannels == 2
MaxSeed == 2
MaxRecipients == 3

\* -------------------------------------------------------------- universes
\* Sender ids: 1 is the id the administrator can be configured as.
Users == {1, 2}

\* ADMIN_USER_ID = None (bot.py:23) is written 0; no user has id 0.
NoAdmin == 0

\* Channel identifiers.  A stored identifier is a name with or without a
\* leading "@"; a name is a handle or a numeric chat id.
Handles == {"a"}
NumericNames == {"-1001"}
Names == Handles \cup NumericNames
Entry == [at : BOOLEAN, name : Handles] \cup [at : {FALSE}, name : NumericNames]

\* An item of SPONSOR_CHANNELS between two commas: an identifier with
\* optional surrounding blanks, or nothing but blanks.
RawItem ==
    {[blank |-> FALSE, sp |-> sp, at |-> c.at, name |-> c.name] : sp \in BOOLEAN, c \in Entry}
    \cup {[blank |-> TRUE, sp |-> TRUE, at |-> FALSE, name |-> "a"]}

Range(s) == {s[i] : i \in 1..Len(s)}

RECURSIVE SeqsUpTo(_, _)
SeqsUpTo(S, n) ==
    IF n = 0 THEN {<<>>}
    ELSE LET shorter == SeqsUpTo(S, n - 1)
         IN  shorter \cup {Append(s, x) : s \in {t \in shorter : Len(t) = n - 1}, x \in S}

RECURSIVE SelectSeq2(_, _)
\* [x for x in s if Keep[x]]
SelectSeq2(s, Keep) ==
    IF s = <<>> THEN <<>>
    ELSE IF Keep[Head(s)] THEN <<Head(s)>> \o SelectSeq2(Tail(s), Keep)
         ELSE SelectSeq2(Tail(s), Keep)

NoDup(s) == \A i, j \in 1..Len(s) : s[i] = s[j] => i = j

\* ------------------------------------------------------------------ state
VARIABLES
    started,          \* main() has run init_db and load_sponsor_channels
    ADMIN_USER_ID,    \* configuration: an id, or NoAdmin
    REPORT_CHANNEL,   \* configuration: a report channel is set
    SPONSOR_CHANNELS, \* configuration: the raw items of the env list
    channels_file,    \* channels.json: whether it exists, whether json.load
                      \* can read it, and the list it holds
    csv,              \* users.csv: the user_id column, in row order
    user_languages,   \* the in-memory language map ("none": no entry)
    files,            \* downloaded artifacts on local storage
    ev,               \* the last handled event and what its handler did
    passed,           \* history: users who once passed the membership gate
    seen              \* history: users a handler has called register_user for

vars == <<started, ADMIN_USER_ID, REPORT_CHANNEL, SPONSOR_CHANNELS,
          channels_file, csv, user_languages, files, ev, passed, seen>>

config == <<ADMIN_USER_ID, REPORT_CHANNEL, SPONSOR_CHANNELS>>

\* --------------------------------------------------------- sponsor channels
\* str.strip() of a raw item removes the blanks around it.
strip(r) == [r EXCEPT !.sp = FALSE]

\* str.lstrip("@")
lstrip_at(c) == [c EXCEPT !.at = FALSE]

\* [c.strip() for c in raw.split(",") if c.strip()]
RECURSIVE channels_from_env(_)
channels_from_env(raw) ==
    IF raw = <<>> THEN <<>>
    ELSE IF Head(raw).blank THEN channels_from_env(Tail(raw))
         ELSE <<[at |-> strip(Head(raw)).at, name |-> strip(Head(raw)).name]>>
              \o channels_from_env(Tail(raw))

\* channels.json before the first run.
NoFile == [exists |-> FALSE, readable |-> FALSE, channels |-> <<>>]

\* channels.json with content json.load raises on, or that is no JSON object
\* (a save cut short after open(..., "w") truncated the file, a hand edit).
Malformed == [exists |-> TRUE, readable |-> FALSE, channels |-> <<>>]

\* save_sponsor_channels: the file now holds the whole list.
save_sponsor_channels(list) == [exists |-> TRUE, readable |-> TRUE, channels |-> list]

\* Lines 56-61: the file exists and its list could be read.
loaded_from_file(file) == file.exists /\ file.readable

\* The list load_sponsor_channels returns: the file's, or the seed from the
\* environment when there is no file or reading it raised.
load_sponsor_channels(file, raw) ==
    IF loaded_from_file(file) THEN file.channels ELSE channels_from_env(raw)

\* The file load_sponsor_channels leaves behind: it persists the seed whenever
\* it did not return the file's list.
load_sponsor_channels_file(file, raw) ==
    IF loaded_from_file(file) THEN file ELSE save_sponsor_channels(channels_from_env(raw))

\* channel_join_url: None for a numeric id, a t.me link for a handle.
channel_join_url(c) ==
    IF lstrip_at(c).name \in NumericNames THEN "none" ELSE lstrip_at(c).name

\* ------------------------------------------------------------ user registry
is_user_registered(rows, user_id) == \E i \in 1..Len(rows) : rows[i] = user_id

\* A plausible slip: appending without looking the id up.
register_user_blind(rows, user_id) == Append(rows, user_id)

\* A plausible slip: writing back a registry that was read before another
\* event's write, so that the other event's row is lost.
register_user_stale(rows, user_id) ==
    IF is_user_registered(rows, user_id) THEN rows ELSE <<user_id>>

\* register_user: the rows it leaves in users.csv.
register_user(rows, user_id) ==
    IF is_user_registered(rows, user_id) THEN rows ELSE Append(rows, user_id)

\* register_user's return value: True for a brand-new user.
register_user_new(rows, user_id) == ~is_user_registered(rows, user_id)

\* get_all_user_ids: the user_id column as a list.
get_all_user_ids(rows) == rows

\* ------------------------------------------------------- membership checker
\* What the platform does with one get_chat_member query: it answers with a
\* status (res = "status"), raises "Member list is inaccessible" (res =
\* "inaccessible", and bot says how the fallback query on the bot itself
\* ends), or raises anything else (res = "error").
Statuses == {"creator", "administrator", "member", "restricted", "left", "kicked"}
BotResults == {"creator", "administrator", "member", "raise"}

Answer(st, cs) == [res |-> "status", status |-> st, can_send |-> cs, bot |-> "member"]
Inaccessible(b) == [res |-> "inaccessible", status |-> "left", can_send |-> FALSE, bot |-> b]
OtherError == [res |-> "error", status |-> "left", can_send |-> FALSE, bot |-> "member"]

Outcomes ==
    {Answer(st, FALSE) : st \in Statuses} \cup {Answer("restricted", TRUE)}
    \cup {Inaccessible(b) : b \in BotResults} \cup {OtherError}

valid_statuses == {"creator", "administrator", "member"}

\* A plausible slip: leaving out the branch for 'restricted'.
is_in_no_restricted(o) == o.status \in valid_statuses

\* Lines 261-264: is_in for an answered query.
is_in(o) == IF o.status = "restricted" THEN o.can_send ELSE o.status \in valid_statuses

\* A plausible slip: a failing fallback lookup blocks the user.
appends_unjoined_closed(o) ==
    CASE o.res = "status" -> ~is_in(o)
      [] o.res = "inaccessible" -> o.bot \notin {"creator", "administrator"}
      [] OTHER -> FALSE

\* Whether one channel's query puts the channel on the unjoined list.
appends_unjoined(o) ==
    CASE o.res = "status" -> ~is_in(o)
      [] o.res = "inaccessible" -> o.bot \notin {"raise", "creator", "administrator"}
      [] OTHER -> FALSE

RECURSIVE get_unjoined_channels_front(_, _)
\* A plausible slip: insert(0, ch) for append(ch).
get_unjoined_channels_front(chs, oc) ==
    IF chs = <<>> THEN <<>>
    ELSE get_unjoined_channels_front(Tail(chs), Tail(oc))
         \o (IF appends_unjoined(Head(oc)) THEN <<Head(chs)>> ELSE <<>>)

RECURSIVE get_unjoined_channels_abort(_, _)
\* A plausible slip: the try around the loop, so that an unexpected error ends
\* the checking of the remaining channels.
get_unjoined_channels_abort(chs, oc) ==
    IF chs = <<>> \/ Head(oc).res = "error" THEN <<>>
    ELSE (IF appends_unjoined(Head(oc)) THEN <<Head(chs)>> ELSE <<>>)
         \o get_unjoined_channels_abort(Tail(chs), Tail(oc))

RECURSIVE get_unjoined_channels(_, _)
\* The loop of get_unjoined_channels over the loaded list; oc[i] is the
\* platform's outcome for the i-th channel.
get_unjoined_channels(chs, oc) ==
    IF chs = <<>> THEN <<>>
    ELSE (IF appends_unjoined(Head(oc)) THEN <<Head(chs)>> ELSE <<>>)
         \o get_unjoined_channels(Tail(chs), Tail(oc))

\* A plausible slip: nobody configured, so nobody is refused.
is_admin_open(user_id) == ADMIN_USER_ID = NoAdmin \/ user_id = ADMIN_USER_ID

\* is_admin
is_admin(user_id) == ADMIN_USER_ID # NoAdmin /\ user_id = ADMIN_USER_ID

\* ------------------------------------------------------------ link extraction
\* A whitespace-free word of a message.  The pattern
\* https?://(?:www\.)?(?:soundcloud\.com|on\.soundcloud\.com)/[^\s]+ is
\* searched case-insensitively, so a word matches when its scheme is http or
\* https in any case, its host is one of the two, and something follows "/".
Word == [scheme : {"https", "HTTP", "ftp"}, www : BOOLEAN,
         host : {"soundcloud.com", "on.soundcloud.com", "example.com"},
         path : {"", "x/y"}]

word_matches(w) ==
    /\ w.scheme \in {"https", "HTTP"}
    /\ w.host \in {"soundcloud.com", "on.soundcloud.com"}
    /\ w.path # ""

NoWord == [scheme |-> "ftp", www |-> FALSE, host |-> "example.com", path |-> ""]

RECURSIVE extract_soundcloud_link(_)
\* re.search: the first match in the text, or None (written NoWord).
extract_soundcloud_link(text) ==
    IF text = <<>> THEN NoWord
    ELSE IF word_matches(Head(text)) THEN Head(text)
         ELSE extract_soundcloud_link(Tail(text))

\* The messages users send: nothing, a word, and a link in mid-sentence after
\* a word that has the provider's host but nothing after the "/".
Texts ==
    {<<>>, <<NoWord>>,
     <<NoWord, [scheme |-> "https", www |-> FALSE, host |-> "soundcloud.com", path |-> ""],
       [scheme |-> "HTTP", www |-> TRUE, host |-> "on.soundcloud.com", path |-> "x/y"], NoWord>>}

\* ---------------------------------------------------------------- events
\* What a handler did with the last event.  ops lists, in order, the steps
\* and platform calls it made; status is the last text that reached the
\* request's status message; nonmember says that the platform, at the time of
\* the event, holds the user to be outside some sponsor channel (whether or
\* not the handler asks).
\* A command sent without an argument.
NoArg == [at |-> FALSE, name |-> "none"]

NoEv ==
    [kind |-> "none", user |-> 1, arg |-> "none", ch |-> NoArg, ops |-> <<>>,
     is_new |-> FALSE, notify |-> "none", had_lang |-> FALSE,
     outcomes |-> <<>>, unjoined |-> <<>>, nonmember |-> FALSE, link |-> NoWord,
     path |-> "none", transmitted |-> FALSE, removed |-> FALSE,
     status |-> "none", raised |-> FALSE, sends |-> <<>>,
     sent |-> 0, failed |-> 0, keyboard |-> <<>>]

\* Local paths the download adapter can produce (one per sanitized title).
Paths == {"t1"}

\* Some answered query reported the user as not in the channel.
reports_nonmember(oc) ==
    \E i \in 1..Len(oc) : oc[i].res = "status" /\ ~is_in(oc[i])

\* The outcomes the pipeline is run with: a member, a user who left, and the
\* two kinds of failing query.
GateOutcomes ==
    {Answer("member", FALSE), Answer("left", FALSE), Inaccessible("member"), OtherError}

\* The outcomes of one run of the membership loop over n channels.
Runs(n) == [1..n -> GateOutcomes]

\* What the platform holds about the user when the handler does not ask.
PlatformViews(chs) == {reports_nonmember(oc) : oc \in Runs(Len(chs))}

\* get_user_language: the recorded language, 'en' by default.
get_user_language(u) == IF user_languages[u] = "none" THEN "en" ELSE user_languages[u]

\* A plausible slip: asking get_user_language, which never says "absent".
has_language_default(u) == get_user_language(u) # "none"

\* Lines 319 and 569: user_id in user_languages.
has_language(u) == user_languages[u] # "none"

RECURSIVE join_rows(_)
\* Lines 289-298: one row with a link button for each unjoined channel that
\* has a join URL.
join_rows(unjoined) ==
    IF unjoined = <<>> THEN <<>>
    ELSE (IF channel_join_url(Head(unjoined)) # "none"
          THEN <<[kind |-> "url", target |-> channel_join_url(Head(unjoined))]>>
          ELSE <<>>)
         \o join_rows(Tail(unjoined))

\* The "I Joined" button of line 299.
i_joined == [kind |-> "callback", target |-> "check_membership"]

\* A plausible slip: a link button for every unjoined channel.
build_join_keyboard_all(unjoined) ==
    [i \in 1..Len(unjoined) |-> [kind |-> "url", target |-> lstrip_at(unjoined[i]).name]]
    \o <<i_joined>>

\* build_join_keyboard: the rows of the inline keyboard.
build_join_keyboard(unjoined) == join_rows(unjoined) \o <<i_joined>>

\* Lines 330-343, 357-370, 381-392: query the membership and answer with the
\* text for "all joined" or with the join prompt.
GateReply(e, chs, joined, prompt) ==
    {LET unj == get_unjoined_channels(chs, oc)
     IN  [e EXCEPT !.ops = e.ops \o <<"get_unjoined_channels">>
                           \o (IF unj = <<>> THEN <<joined>> ELSE <<prompt>>),
                   !.unjoined = unj, !.nonmember = reports_nonmember(oc),
                   !.keyboard = IF unj = <<>> THEN <<>> ELSE build_join_keyboard(unj)]
     : oc \in Runs(Len(chs))}

\* A plausible slip: no return after the picker.
Picker_no_return(e, chs) ==
    GateReply([e EXCEPT !.ops = e.ops \o <<"reply_picker">>], chs, "reply_welcome", "reply_join")

\* The language gate: the picker, and nothing else.
Picker(e, chs) ==
    {[e EXCEPT !.ops = e.ops \o <<"reply_picker">>, !.nonmember = nm] : nm \in PlatformViews(chs)}

\* notify_new_user: nothing without a report channel; otherwise the two sends
\* succeed or one of them raises, which is caught and printed.
NotifyResults == IF REPORT_CHANNEL THEN {"ok", "failed"} ELSE {"none"}

\* Lines 314-316 and 565-567: register, and notify on first sight.
Registered(e, u) ==
    LET new == register_user_new(csv, u)
    IN  {[e EXCEPT !.is_new = new, !.notify = n,
                   !.ops = IF new /\ REPORT_CHANNEL
                           THEN <<"register_user", "notify_new_user">>
                           ELSE <<"register_user">>] :
            n \in IF new THEN NotifyResults ELSE {"none"}}

\* The outer except of handle_message (lines 630-634): the generic error
\* notice, unless that edit raises too and the handler ends with the error.
ErrorTail(e) ==
    {[e EXCEPT !.ops = e.ops \o <<"edit_error">>, !.status = "error"],
     [e EXCEPT !.ops = e.ops \o <<"edit_error">>, !.raised = TRUE]}

\* The inner except (lines 625-629): the send-failed notice; if that edit
\* raises, the outer except takes over.
SendFailedTail(e) ==
    LET e1 == [e EXCEPT !.ops = e.ops \o <<"edit_send_failed">>]
    IN  {[e1 EXCEPT !.status = "send_failed"]} \cup ErrorTail(e1)

\* Lines 609-624 once send_audio has returned: delete the file (a failure to
\* delete is caught and printed), then the success notice.
AfterSent(e, fs) ==
    UNION {
        LET e1 == [e EXCEPT !.transmitted = TRUE, !.removed = rm,
                            !.ops = e.ops \o <<"send_audio", "os_remove", "edit_success">>]
            f1 == IF rm THEN fs \ {e.path} ELSE fs
        IN  {[ev |-> x, files |-> f1] :
                x \in {[e1 EXCEPT !.status = "success"]} \cup SendFailedTail(e1)}
        : rm \in BOOLEAN}

\* A plausible slip: cleaning up on the failure path as well.
AfterSendRaised_cleanup(e, fs) ==
    {[ev |-> x, files |-> fs \ {e.path}] :
        x \in SendFailedTail([e EXCEPT !.ops = e.ops \o <<"send_audio">>])}

\* Lines 609-629 when send_audio raises: the file stays.
AfterSendRaised(e, fs) ==
    {[ev |-> x, files |-> fs] :
        x \in SendFailedTail([e EXCEPT !.ops = e.ops \o <<"send_audio">>])}

\* Lines 597-601: the 'downloading' status, then the adapter is handed to the
\* executor and the handler awaits its result.
DeliveryStart(e) ==
    [e EXCEPT !.ops = e.ops \o <<"reply_downloading", "download_soundcloud">>,
              !.status = "downloading"]

\* Lines 601-634, once the executor has returned: the adapter gave no path,
\* or the path of a file that is then on local storage.
DeliveryRest(e0, fs) ==
    LET e1 == [e0 EXCEPT !.ops = e0.ops \o <<"edit_download_failed">>]
    IN  {[ev |-> x, files |-> fs] :
            x \in {[e1 EXCEPT !.status = "download_failed"]} \cup ErrorTail(e1)}
        \cup UNION {AfterSent([e0 EXCEPT !.path = p], fs \cup {p})
                    \cup AfterSendRaised([e0 EXCEPT !.path = p], fs \cup {p})
                    : p \in Paths}

\* A plausible slip: calling the adapter a second time before giving up.
Delivery_retry(e, fs) ==
    LET e0 == DeliveryStart(e)
    IN  DeliveryRest(e0, fs)
        \cup DeliveryRest([e0 EXCEPT !.ops = e0.ops \o <<"download_soundcloud">>], fs)

\* Lines 597-634: the delivery sequence.
Delivery(e, fs) == DeliveryRest(DeliveryStart(e), fs)

\* Lines 588-634 of handle_message, after both gates: e is the event so
\* far, text the message.
MessageContent(e, text, fs) ==
    LET e2 == [e EXCEPT !.ops = e.ops \o <<"extract_soundcloud_link">>,
                        !.link = extract_soundcloud_link(text)]
    IN  IF e2.link = NoWord
        THEN {[ev |-> [e2 EXCEPT !.ops = e2.ops \o <<"reply_invalid_link">>], files |-> fs]}
        ELSE Delivery(e2, fs)

\* A plausible slip: trusting an earlier successful check.
MessageGate_cached(e, oc, chs) ==
    [e EXCEPT !.ops = e.ops \o <<"get_unjoined_channels">>,
              !.unjoined = IF e.user \in passed THEN <<>> ELSE get_unjoined_channels(chs, oc),
              !.nonmember = reports_nonmember(oc)]

\* Lines 580-586: the membership gate of handle_message under the platform's
\* outcomes oc.
MessageGate(e, oc, chs) ==
    [e EXCEPT !.ops = e.ops \o <<"get_unjoined_channels">>,
              !.unjoined = get_unjoined_channels(chs, oc),
              !.nonmember = reports_nonmember(oc)]

\* handle_message: everything the handler can do with a text message of u.
\* The platform's outcomes and the text are drawn where the code reads them.
handle_message(u, chs, fs) ==
    UNION {
        IF ~has_language(u)
        THEN {[ev |-> x, files |-> fs] : x \in Picker(e, chs)}
        ELSE UNION {
                LET e1 == MessageGate([e EXCEPT !.had_lang = TRUE], oc, chs)
                IN  IF e1.unjoined # <<>>
                    THEN {[ev |-> [e1 EXCEPT !.ops = e1.ops \o <<"reply_join">>,
                                             !.keyboard = build_join_keyboard(e1.unjoined)],
                           files |-> fs]}
                    ELSE UNION {MessageContent(e1, text, fs) : text \in Texts}
                : oc \in Runs(Len(chs))}
        : e \in Registered([NoEv EXCEPT !.kind = "message", !.user = u], u)}

\* The membership gate has been passed in this event.
PassedGate(e) ==
    /\ \E i \in 1..Len(e.ops) : e.ops[i] = "get_unjoined_channels"
    /\ e.unjoined = <<>>

OnMessage(u) ==
    /\ started
    /\ \E r \in handle_message(u, load_sponsor_channels(channels_file, SPONSOR_CHANNELS),
                                files) :
            /\ ev' = r.ev
            /\ files' = r.files
    /\ csv' = register_user(csv, u)
    /\ channels_file' = IF ~has_language(u) THEN channels_file
                        ELSE load_sponsor_channels_file(channels_file, SPONSOR_CHANNELS)
    /\ UNCHANGED <<started, config, user_languages>>

\* The handler is suspended at line 601: the download has been handed to the
\* executor and has not returned.
Suspended ==
    /\ ev.kind = "message" /\ ev.ops # <<>>
    /\ ev.ops[Len(ev.ops)] = "download_soundcloud"

\* A run of handle_message cut at the await of line 601, if it gets there:
\* nothing after the await has happened yet.
UpToAwait(r, fs) ==
    IF \E i \in 1..Len(r.ev.ops) : r.ev.ops[i] = "download_soundcloud"
    THEN LET i == CHOOSE k \in 1..Len(r.ev.ops) : r.ev.ops[k] = "download_soundcloud"
         IN  [ev |-> [r.ev EXCEPT !.ops = SubSeq(r.ev.ops, 1, i), !.status = "downloading",
                                  !.path = "none", !.transmitted = FALSE,
                                  !.removed = FALSE, !.raised = FALSE],
              files |-> fs]
    ELSE r

\* handle_message from the update to its end, or to the await of line 601.
OnMessageToAwait(u) ==
    /\ started
    /\ \E r \in handle_message(u, load_sponsor_channels(channels_file, SPONSOR_CHANNELS),
                                files) :
            /\ ev' = UpToAwait(r, files).ev
            /\ files' = UpToAwait(r, files).files
    /\ csv' = register_user(csv, u)
    /\ channels_file' = IF ~has_language(u) THEN channels_file
                        ELSE load_sponsor_channels_file(channels_file, SPONSOR_CHANNELS)
    /\ UNCHANGED <<started, config, user_languages>>

\* The executor returns and handle_message runs from line 601 to its end.
OnDownloadReturns ==
    /\ started
    /\ Suspended
    /\ \E r \in DeliveryRest(ev, files) :
            /\ ev' = r.ev
            /\ files' = r.files
    /\ UNCHANGED <<started, config, channels_file, csv, user_languages>>

\* start_command
start_command(u, chs) ==
    UNION {
        IF ~has_language(u)
        THEN Picker(e, chs)
        ELSE GateReply([e EXCEPT !.had_lang = TRUE], chs, "reply_welcome", "reply_join")
        : e \in Registered([NoEv EXCEPT !.kind = "start", !.user = u], u)}

OnStart(u) ==
    /\ started
    /\ \E e \in start_command(u, load_sponsor_channels(channels_file, SPONSOR_CHANNELS)) :
            ev' = e
    /\ csv' = register_user(csv, u)
    /\ channels_file' = IF ~has_language(u) THEN channels_file
                        ELSE load_sponsor_channels_file(channels_file, SPONSOR_CHANNELS)
    /\ UNCHANGED <<started, config, user_languages, files>>

\* The language codes of the picker's two buttons (lang_en, lang_fa).
LangCodes == {"en", "fa"}

\* language_callback: answer the query, register (no notification), record
\* the language, then the membership gate.
language_callback(u, lang_code, chs) ==
    GateReply([NoEv EXCEPT !.kind = "lang", !.user = u, !.arg = lang_code,
                           !.is_new = register_user_new(csv, u),
                           !.had_lang = has_language(u),
                           !.ops = <<"answer", "register_user", "set_language">>],
              chs, "edit_welcome", "edit_join")

OnLanguageCallback(u) ==
    /\ started
    /\ \E lang_code \in LangCodes :
         /\ user_languages' = [user_languages EXCEPT ![u] = lang_code]
         /\ \E e \in language_callback(u, lang_code,
                         load_sponsor_channels(channels_file, SPONSOR_CHANNELS)) :
                ev' = e
    /\ csv' = register_user(csv, u)
    /\ channels_file' = load_sponsor_channels_file(channels_file, SPONSOR_CHANNELS)
    /\ UNCHANGED <<started, config, files>>

\* TRANSLATIONS (lines 188-237): the tables of the two locales, which hold the
\* same keys; two keys stand for all of them.
TRANSLATIONS ==
    [en |-> [hello |-> "Hello", verified |-> "Great!"],
     fa |-> [hello |-> "salam", verified |-> "aali!"]]

\* The keys a lookup is made with: two of the tables' and one of neither.
Keys == {"hello", "verified", "no_such_key"}

\* TRANSLATIONS[lang] for a lang that is no key of TRANSLATIONS.
KeyError == "KeyError"

\* t(key, user_id) without substitutions: the text of the user's locale, else
\* that of 'en', else the key itself.
t(key, u) ==
    LET lang == get_user_language(u)
    IN  IF lang \notin DOMAIN TRANSLATIONS THEN KeyError
        ELSE IF key \in DOMAIN TRANSLATIONS[lang] THEN TRANSLATIONS[lang][key]
        ELSE IF key \in DOMAIN TRANSLATIONS["en"] THEN TRANSLATIONS["en"][key]
        ELSE key

\* Callback data as query.data.split('_') sees it: lang_en, lang_fa, lang_de,
\* "lang_", lang_en_x and language_en.
CallbackData ==
    {<<"lang", "en">>, <<"lang", "fa">>, <<"lang", "de">>, <<"lang", "">>,
     <<"lang", "en", "x">>, <<"language", "en">>}

\* Line 653: the pattern ^lang_ of the language handler.
matches_lang(data) == Len(data) >= 2 /\ data[1] = "lang"

\* language_callback for any data the pattern lets through: the code after
\* "lang_" is recorded as it is, and the reply's t(...) raises for a code
\* TRANSLATIONS has no table for, after the membership query.
language_callback_data(u, data, chs) ==
    LET lang_code == data[2]
    IN  IF lang_code \in DOMAIN TRANSLATIONS
        THEN language_callback(u, lang_code, chs)
        ELSE {[e EXCEPT !.ops = SubSeq(e.ops, 1, Len(e.ops) - 1), !.raised = TRUE] :
                 e \in language_callback(u, lang_code, chs)}

OnLanguageCallbackData(u) ==
    /\ started
    /\ \E data \in CallbackData :
         /\ matches_lang(data)
         /\ user_languages' = [user_languages EXCEPT ![u] = data[2]]
         /\ \E e \in language_callback_data(u, data,
                         load_sponsor_channels(channels_file, SPONSOR_CHANNELS)) :
                ev' = e
    /\ csv' = register_user(csv, u)
    /\ channels_file' = load_sponsor_channels_file(channels_file, SPONSOR_CHANNELS)
    /\ UNCHANGED <<started, config, files>>

\* A plausible slip: answering from an earlier check instead of asking again.
check_membership_callback_stale(u, chs) ==
    {[e EXCEPT !.ops = SubSeq(e.ops, 1, Len(e.ops) - 1)
                       \o <<IF u \in passed THEN "edit_verified" ELSE "edit_not_joined">>] :
        e \in GateReply([NoEv EXCEPT !.kind = "check", !.user = u,
                                     !.is_new = register_user_new(csv, u),
                                     !.had_lang = has_language(u),
                                     !.ops = <<"answer", "register_user">>],
                        chs, "edit_verified", "edit_not_joined")}

\* check_membership_callback: the "I Joined" button.
check_membership_callback(u, chs) ==
    GateReply([NoEv EXCEPT !.kind = "check", !.user = u,
                           !.is_new = register_user_new(csv, u),
                           !.had_lang = has_language(u),
                           !.ops = <<"answer", "register_user">>],
              chs, "edit_verified", "edit_not_joined")

OnCheckMembershipCallback(u) ==
    /\ started
    /\ \E e \in check_membership_callback(u,
                     load_sponsor_channels(channels_file, SPONSOR_CHANNELS)) :
            ev' = e
    /\ csv' = register_user(csv, u)
    /\ channels_file' = load_sponsor_channels_file(channels_file, SPONSOR_CHANNELS)
    /\ UNCHANGED <<started, config, user_languages, files>>

\* ------------------------------------------------------------ admin commands
Unauthorized(e) == [e EXCEPT !.ops = <<"reply_unauthorized">>]

RECURSIVE broadcast_loop_abort(_, _, _)
\* A plausible slip: the try around the loop instead of inside it, so the
\* first failing send ends the loop.
broadcast_loop_abort(user_ids, res, e) ==
    IF user_ids = <<>> THEN e
    ELSE IF ~Head(res)
         THEN [e EXCEPT !.sends = Append(e.sends, [to |-> Head(user_ids), ok |-> FALSE]),
                        !.failed = e.failed + 1]
         ELSE broadcast_loop_abort(Tail(user_ids), Tail(res),
                [e EXCEPT !.sends = Append(e.sends, [to |-> Head(user_ids), ok |-> TRUE]),
                          !.sent = e.sent + 1])

RECURSIVE broadcast_loop(_, _, _)
\* Lines 412-419: one send per id, in order; res[i] says whether the i-th
\* send returns (TRUE) or raises (FALSE); a raise is counted and the loop
\* goes on.
broadcast_loop(user_ids, res, e) ==
    IF user_ids = <<>> THEN e
    ELSE broadcast_loop(Tail(user_ids), Tail(res),
            [e EXCEPT !.sends = Append(e.sends, [to |-> Head(user_ids), ok |-> Head(res)]),
                      !.sent = IF Head(res) THEN e.sent + 1 ELSE e.sent,
                      !.failed = IF Head(res) THEN e.failed ELSE e.failed + 1])

\* broadcast_command
broadcast_command(u, has_args, rows) ==
    LET e == [NoEv EXCEPT !.kind = "broadcast", !.user = u,
                          !.arg = IF has_args THEN "text" ELSE "none"]
    IN  IF ~is_admin(u) THEN {Unauthorized(e)}
        ELSE IF ~has_args THEN {[e EXCEPT !.ops = <<"reply_usage">>]}
        ELSE {LET done == broadcast_loop(get_all_user_ids(rows), res,
                              [e EXCEPT !.ops = <<"get_all_user_ids", "reply_broadcasting">>])
              IN  [done EXCEPT !.ops = done.ops \o <<"edit_tally">>]
              : res \in [1..Len(get_all_user_ids(rows)) -> BOOLEAN]}

Broadcast(u) ==
    /\ started
    /\ \E has_args \in BOOLEAN : \E e \in broadcast_command(u, has_args, csv) : ev' = e
    /\ UNCHANGED <<started, config, channels_file, csv, user_languages, files, passed, seen>>

\* A plausible slip: comparing the identifiers as they were typed.
already_listed_exact(chs, ch) == \E i \in 1..Len(chs) : chs[i] = ch

\* Line 442: ch_norm in [c.lstrip("@") for c in channels]
already_listed(chs, ch) == \E i \in 1..Len(chs) : lstrip_at(chs[i]) = lstrip_at(ch)

\* A plausible slip: filtering on the stored identifier, not its normal form.
without_channel_exact(chs, ch) ==
    SelectSeq2(chs, [c \in Range(chs) |-> c # lstrip_at(ch)])

\* Line 468: [c for c in channels if c.lstrip("@") != ch]
without_channel(chs, ch) ==
    SelectSeq2(chs, [c \in Range(chs) |-> lstrip_at(c) # lstrip_at(ch)])

\* add_channel_command: the reply, and the list it saves (the loaded list
\* when nothing is saved).
add_channel_command(u, ch, chs) ==
    LET e == [NoEv EXCEPT !.kind = "add_channel", !.user = u, !.ch = ch]
    IN  IF ~is_admin(u) THEN [ev |-> Unauthorized(e), saved |-> FALSE, list |-> chs]
        ELSE IF ch = NoArg
             THEN [ev |-> [e EXCEPT !.ops = <<"reply_usage">>], saved |-> FALSE, list |-> chs]
        ELSE IF already_listed(chs, ch)
             THEN [ev |-> [e EXCEPT !.ops = <<"load_sponsor_channels", "reply_already">>],
                   saved |-> FALSE, list |-> chs]
        ELSE [ev |-> [e EXCEPT !.ops = <<"load_sponsor_channels", "save_sponsor_channels",
                                         "reply_added">>],
              saved |-> TRUE, list |-> Append(chs, ch)]

\* remove_channel_command
remove_channel_command(u, ch, chs) ==
    LET e == [NoEv EXCEPT !.kind = "remove_channel", !.user = u, !.ch = ch]
    IN  IF ~is_admin(u) THEN [ev |-> Unauthorized(e), saved |-> FALSE, list |-> chs]
        ELSE IF ch = NoArg
             THEN [ev |-> [e EXCEPT !.ops = <<"reply_usage">>], saved |-> FALSE, list |-> chs]
        ELSE IF Len(without_channel(chs, ch)) = Len(chs)
             THEN [ev |-> [e EXCEPT !.ops = <<"load_sponsor_channels", "reply_not_found">>],
                   saved |-> FALSE, list |-> chs]
        ELSE [ev |-> [e EXCEPT !.ops = <<"load_sponsor_channels", "save_sponsor_channels",
                                         "reply_removed">>],
              saved |-> TRUE, list |-> without_channel(chs, ch)]

\* The file after an admin command that loaded the list and perhaps saved.
FileAfter(r) ==
    IF r.saved THEN save_sponsor_channels(r.list)
    ELSE IF "load_sponsor_channels" \in Range(r.ev.ops)
         THEN load_sponsor_channels_file(channels_file, SPONSOR_CHANNELS)
         ELSE channels_file

AddChannel(u) ==
    /\ started
    /\ \E ch \in Entry \cup {NoArg} :
         LET r == add_channel_command(u, ch,
                      load_sponsor_channels(channels_file, SPONSOR_CHANNELS))
         IN  /\ Len(r.list) <= MaxChannels
             /\ ev' = r.ev
             /\ channels_file' = FileAfter(r)
    /\ UNCHANGED <<started, config, csv, user_languages, files, passed, seen>>

RemoveChannel(u) ==
    /\ started
    /\ \E ch \in Entry \cup {NoArg} :
         LET r == remove_channel_command(u, ch,
                      load_sponsor_channels(channels_file, SPONSOR_CHANNELS))
         IN  /\ ev' = r.ev
             /\ channels_file' = FileAfter(r)
    /\ UNCHANGED <<started, config, csv, user_languages, files, passed, seen>>

\* list_channels_command
list_channels_command(u, chs) ==
    LET e == [NoEv EXCEPT !.kind = "list_channels", !.user = u]
    IN  IF ~is_admin(u) THEN Unauthorized(e)
        ELSE [e EXCEPT !.ops = <<"load_sponsor_channels",
                                 IF chs # <<>> THEN "reply_list" ELSE "reply_no_channels">>]

ListChannels(u) ==
    /\ started
    /\ ev' = list_channels_command(u, load_sponsor_channels(channels_file, SPONSOR_CHANNELS))
    /\ channels_file' = IF is_admin(u)
                        THEN load_sponsor_channels_file(channels_file, SPONSOR_CHANNELS)
                        ELSE channels_file
    /\ UNCHANGED <<started, config, csv, user_languages, files, passed, seen>>

\* send_csv_command
send_csv_command(u) ==
    LET e == [NoEv EXCEPT !.kind = "send_csv", !.user = u]
    IN  IF ~is_admin(u) THEN Unauthorized(e)
        ELSE [e EXCEPT !.ops = <<"read_csv", "send_document">>]

SendCsv(u) ==
    /\ started
    /\ ev' = send_csv_command(u)
    /\ UNCHANGED <<started, config, channels_file, csv, user_languages, files, passed, seen>>

\* ------------------------------------------------------------------- main
\* main(): init_db, then load_sponsor_channels seeds and persists the list on
\* a first run; the handlers are registered after that.
Main ==
    /\ ~started
    /\ started' = TRUE
    /\ channels_file' = load_sponsor_channels_file(channels_file, SPONSOR_CHANNELS)
    /\ UNCHANGED <<config, csv, user_languages, files, ev, passed, seen>>

\* ------------------------------------------------------------ specification
\* The handlers as the dispatcher runs them, with and without the history of
\* who has passed the membership gate.
Track ==
    /\ passed' = IF PassedGate(ev') THEN passed \cup {ev'.user} ELSE passed
    /\ UNCHANGED seen

Start(u) == OnStart(u) /\ UNCHANGED <<passed, seen>>
Message(u) == OnMessage(u) /\ UNCHANGED <<passed, seen>>
LanguageCallback(u) == OnLanguageCallback(u) /\ UNCHANGED <<passed, seen>>
CheckMembershipCallback(u) == OnCheckMembershipCallback(u) /\ UNCHANGED <<passed, seen>>

StartTracked(u) == OnStart(u) /\ Track
MessageTracked(u) == OnMessage(u) /\ Track
LanguageCallbackTracked(u) == OnLanguageCallback(u) /\ Track
CheckMembershipCallbackTracked(u) == OnCheckMembershipCallback(u) /\ Track

\* The dispatcher.  The Application is built without concurrent_updates (line
\* 649) and the handlers are added as blocking ones (lines 652-662): the
\* update fetcher awaits the handler of one update before it takes the next
\* update from the queue.  While handle_message awaits the executor, the event
\* loop is free but no other update is dispatched.
Idle == ~Suspended

\* seen records the senders a handler has called register_user for.
Register ==
    seen' = IF \E i \in 1..Len(ev'.ops) : ev'.ops[i] = "register_user"
            THEN seen \cup {ev'.user} ELSE seen

StartDispatched(u) == Idle /\ OnStart(u) /\ Register /\ UNCHANGED passed
MessageDispatched(u) == Idle /\ OnMessageToAwait(u) /\ Register /\ UNCHANGED passed
LanguageCallbackDispatched(u) == Idle /\ OnLanguageCallback(u) /\ Register /\ UNCHANGED passed
CheckMembershipCallbackDispatched(u) ==
    Idle /\ OnCheckMembershipCallback(u) /\ Register /\ UNCHANGED passed
DownloadReturns == OnDownloadReturns /\ UNCHANGED <<passed, seen>>
LanguageCallbackData(u) == OnLanguageCallbackData(u) /\ UNCHANGED <<passed, seen>>

\* Registries earlier runs can have left behind.
Registries(ids) == {r \in SeqsUpTo(ids, Cardinality(ids)) : NoDup(r)}

\* The environment list the whole bot is run with: "-1001, , @a".
SampleSeed ==
    <<[blank |-> FALSE, sp |-> FALSE, at |-> FALSE, name |-> "-1001"],
      [blank |-> TRUE, sp |-> TRUE, at |-> FALSE, name |-> "a"],
      [blank |-> FALSE, sp |-> TRUE, at |-> TRUE, name |-> "a"]>>

\* The whole bot from a first run: main, then every handler.
Init ==
    /\ started = FALSE
    /\ ADMIN_USER_ID \in {NoAdmin, 1}
    /\ REPORT_CHANNEL = FALSE
    /\ SPONSOR_CHANNELS = SampleSeed
    /\ channels_file = NoFile
    /\ csv = <<>>
    /\ user_languages = [u \in Users |-> "none"]
    /\ files = {}
    /\ ev = NoEv
    /\ passed = {}
    /\ seen = {}

Next ==
    \/ Main
    \/ \E u \in Users : Start(u)
    \/ \E u \in Users : Message(u)
    \/ \E u \in Users : LanguageCallback(u)
    \/ \E u \in Users : CheckMembershipCallback(u)
    \/ \E u \in Users : Broadcast(u)
    \/ \E u \in Users : AddChannel(u)
    \/ \E u \in Users : RemoveChannel(u)
    \/ \E u \in Users : ListChannels(u)
    \/ \E u \in Users : SendCsv(u)

Spec == Init /\ [][Next]_vars

\* The user-facing pipeline of a bot that has been restarted: the registry
\* and the channel list of earlier runs are on disk, the language map is
\* empty.  passed records who has passed the membership gate so far.
SavedLists ==
    {<<>>, <<[at |-> TRUE, name |-> "a"]>>,
     <<[at |-> FALSE, name |-> "-1001"], [at |-> TRUE, name |-> "a"]>>}

InitGate ==
    /\ started = TRUE
    /\ ADMIN_USER_ID = NoAdmin
    /\ REPORT_CHANNEL = TRUE
    /\ SPONSOR_CHANNELS = <<>>
    /\ channels_file \in {save_sponsor_channels(l) : l \in SavedLists}
    /\ csv \in Registries(Users)
    /\ user_languages = [u \in Users |-> "none"]
    /\ files = {}
    /\ ev = NoEv
    /\ passed = {}
    /\ seen = {}

NextGate ==
    \/ \E u \in Users : StartTracked(u)
    \/ \E u \in Users : MessageTracked(u)
    \/ \E u \in Users : LanguageCallbackTracked(u)
    \/ \E u \in Users : CheckMembershipCallbackTracked(u)

SpecGate == InitGate /\ [][NextGate]_vars

\* The sponsor list from a first run under every environment list: main, the
\* admin commands that change the list, and a command that only reads it.
InitChannels ==
    /\ started = FALSE
    /\ ADMIN_USER_ID = 1
    /\ REPORT_CHANNEL = FALSE
    /\ SPONSOR_CHANNELS \in SeqsUpTo(RawItem, MaxSeed)
    /\ channels_file = NoFile
    /\ csv = <<>>
    /\ user_languages = [u \in Users |-> "none"]
    /\ files = {}
    /\ ev = NoEv
    /\ passed = {}
    /\ seen = {}

NextChannels ==
    \/ Main
    \/ \E u \in Users : AddChannel(u)
    \/ \E u \in Users : RemoveChannel(u)
    \/ \E u \in Users : ListChannels(u)

SpecChannels == InitChannels /\ [][NextChannels]_vars

\* Broadcasts over the registries earlier runs can have left behind, with
\* /start commands registering the senders in between.
InitBroadcast ==
    /\ started = TRUE
    /\ ADMIN_USER_ID = 1
    /\ REPORT_CHANNEL = FALSE
    /\ SPONSOR_CHANNELS = <<>>
    /\ channels_file = save_sponsor_channels(<<>>)
    /\ csv \in Registries(1..MaxRecipients)
    /\ user_languages = [u \in Users |-> "none"]
    /\ files = {}
    /\ ev = NoEv
    /\ passed = {}
    /\ seen = {}

NextBroadcast ==
    \/ \E u \in Users : Broadcast(u)
    \/ \E u \in Users : Start(u)

SpecBroadcast == InitBroadcast /\ [][NextBroadcast]_vars

\* A restart: channels.json of an earlier run is on disk, as it was saved or
\* malformed, and the environment still holds a seed; main, then handlers
\* that read the list and the admin commands that change it.
InitRestart ==
    /\ started = FALSE
    /\ ADMIN_USER_ID = 1
    /\ REPORT_CHANNEL = FALSE
    /\ SPONSOR_CHANNELS = SampleSeed
    /\ channels_file \in {save_sponsor_channels(l) : l \in SavedLists} \cup {Malformed}
    /\ csv = <<>>
    /\ user_languages = [u \in Users |-> "none"]
    /\ files = {}
    /\ ev = NoEv
    /\ passed = {}
    /\ seen = {}

NextRestart ==
    \/ Main
    \/ \E u \in Users : Start(u)
    \/ \E u \in Users : CheckMembershipCallback(u)
    \/ \E u \in Users : AddChannel(u)
    \/ \E u \in Users : RemoveChannel(u)
    \/ \E u \in Users : ListChannels(u)

SpecRestart == InitRestart /\ [][NextRestart]_vars

\* The language handler under every callback data its pattern accepts.
InitLanguage ==
    /\ started = TRUE
    /\ ADMIN_USER_ID = NoAdmin
    /\ REPORT_CHANNEL = TRUE
    /\ SPONSOR_CHANNELS = <<>>
    /\ channels_file \in {save_sponsor_channels(l) : l \in SavedLists}
    /\ csv = <<>>
    /\ user_languages = [u \in Users |-> "none"]
    /\ files = {}
    /\ ev = NoEv
    /\ passed = {}
    /\ seen = {}

NextLanguage == \E u \in Users : LanguageCallbackData(u)

SpecLanguage == InitLanguage /\ [][NextLanguage]_vars

\* The user-facing pipeline over a sponsor list with two handles around a
\* numeric id, or with a numeric id alone: the join prompts every handler can
\* show.
KeyboardLists ==
    {<<[at |-> TRUE, name |-> "b"], [at |-> FALSE, name |-> "-1001"], [at |-> FALSE, name |-> "a"]>>,
     <<[at |-> FALSE, name |-> "-1001"]>>}

InitKeyboard ==
    /\ started = TRUE
    /\ ADMIN_USER_ID = NoAdmin
    /\ REPORT_CHANNEL = FALSE
    /\ SPONSOR_CHANNELS = <<>>
    /\ channels_file \in {save_sponsor_channels(l) : l \in KeyboardLists}
    /\ csv = <<1>>
    /\ user_languages = [u \in Users |-> "none"]
    /\ files = {}
    /\ ev = NoEv
    /\ passed = {}
    /\ seen = {}

NextKeyboard ==
    \/ \E u \in Users : Start(u)
    \/ \E u \in Users : Message(u)
    \/ \E u \in Users : LanguageCallback(u)
    \/ \E u \in Users : CheckMembershipCallback(u)

SpecKeyboard == InitKeyboard /\ [][NextKeyboard]_vars

\* The dispatcher and the handlers of a bot with an empty registry: a message
\* handler can be suspended at its download, which returns later or never.
InitDispatch ==
    /\ started = TRUE
    /\ ADMIN_USER_ID = NoAdmin
    /\ REPORT_CHANNEL = TRUE
    /\ SPONSOR_CHANNELS = <<>>
    /\ channels_file \in {save_sponsor_channels(l) : l \in SavedLists}
    /\ csv = <<>>
    /\ user_languages = [u \in Users |-> "none"]
    /\ files = {}
    /\ ev = NoEv
    /\ passed = {}
    /\ seen = {}

NextDispatch ==
    \/ \E u \in Users : StartDispatched(u)
    \/ \E u \in Users : MessageDispatched(u)
    \/ \E u \in Users : LanguageCallbackDispatched(u)
    \/ \E u \in Users : CheckMembershipCallbackDispatched(u)
    \/ DownloadReturns

SpecDispatch == InitDispatch /\ [][NextDispatch]_vars

\* get_unjoined_channels on its own: the inputs are drawn first (every saved
\* list, every outcome the platform can give for each of its channels), and
\* the one step runs the loop on them.
QueryMembership ==
    /\ started
    /\ ev.kind = "pending_query"
    /\ ev' = [ev EXCEPT !.kind = "query",
                        !.ops = <<"get_unjoined_channels">>,
                        !.nonmember = reports_nonmember(ev.outcomes),
                        !.unjoined = get_unjoined_channels(
                            load_sponsor_channels(channels_file, SPONSOR_CHANNELS),
                            ev.outcomes)]
    /\ channels_file' = load_sponsor_channels_file(channels_file, SPONSOR_CHANNELS)
    /\ UNCHANGED <<started, config, csv, user_languages, files, passed, seen>>

InitMembership ==
    /\ started = TRUE
    /\ ADMIN_USER_ID = NoAdmin
    /\ REPORT_CHANNEL = FALSE
    /\ SPONSOR_CHANNELS = <<>>
    /\ \E l \in SeqsUpTo(Entry, MaxChannels) :
         /\ channels_file = save_sponsor_channels(l)
         /\ ev \in {[NoEv EXCEPT !.kind = "pending_query", !.outcomes = oc] :
                      oc \in [1..Len(l) -> Outcomes]}
    /\ csv = <<>>
    /\ user_languages = [u \in Users |-> "none"]
    /\ files = {}
    /\ passed = {}
    /\ seen = {}

NextMembership == QueryMembership

SpecMembership == InitMembership /\ [][NextMembership]_vars

\* ------------------------------------------------------------------ claims
Did(x) == x \in Range(ev.ops)
LastOp == IF ev.ops = <<>> THEN "none" ELSE ev.ops[Len(ev.ops)]

\* Every x among the ops comes before every y.
Before(x, y) ==
    \A i, j \in 1..Len(ev.ops) : ev.ops[i] = x /\ ev.ops[j] = y => i < j

Downloads == Did("reply_downloading") \/ Did("download_soundcloud")

\* C1: handle_message shows the 'downloading' status and calls the download
\* adapter only if, in that event, the sender has a language, the membership
\* query returned an empty list and a link was extracted, in this order: a
\* sender without a language gets the picker and no membership query; a
\* sender with unjoined channels gets the join prompt and neither a link
\* extraction nor a download.
C1_GatesBeforeDownload ==
    ev.kind = "message" =>
        /\ Downloads =>
              /\ user_languages[ev.user] # "none"
              /\ Did("get_unjoined_channels") /\ ev.unjoined = <<>>
              /\ Did("extract_soundcloud_link") /\ word_matches(ev.link)
              /\ Did("reply_downloading") /\ Did("download_soundcloud")
              /\ Before("get_unjoined_channels", "extract_soundcloud_link")
              /\ Before("extract_soundcloud_link", "reply_downloading")
              /\ Before("reply_downloading", "download_soundcloud")
        /\ user_languages[ev.user] = "none" =>
              /\ LastOp = "reply_picker"
              /\ ~Did("get_unjoined_channels") /\ ~Did("extract_soundcloud_link")
              /\ ~Downloads
        /\ ev.unjoined # <<>> =>
              /\ LastOp = "reply_join"
              /\ ~Did("extract_soundcloud_link") /\ ~Downloads

\* C1's case: a message went through both gates and was downloaded.
C1_Witness ==
    /\ ev.kind = "message" /\ Did("download_soundcloud")
    /\ Len(channels_file.channels) = 2

\* C2 as written: a user who once passed the membership gate and whom the
\* platform now holds to be outside some sponsor channel gets the join prompt
\* for the next message or /start, and no download.
C2_JoinPromptAfterLeaving ==
    (ev.kind \in {"message", "start"} /\ ev.user \in passed /\ ev.nonmember) =>
        LastOp = "reply_join" /\ ~Downloads

\* C2, amended: such a user gets the join prompt if a language is recorded
\* for them and the language picker if none is; no download is started, and
\* nothing an earlier check wrote lets them through.
C2_NoCachedMembership ==
    (ev.kind \in {"message", "start"} /\ ev.user \in passed /\ ev.nonmember) =>
        /\ ~Downloads
        /\ LastOp \notin {"reply_welcome", "reply_invalid_link"}
        /\ LastOp = IF user_languages[ev.user] = "none" THEN "reply_picker" ELSE "reply_join"

\* C2's case: a user who passed before is turned back at the gate.
C2_Witness ==
    /\ ev.kind = "message" /\ ev.user \in passed /\ ev.nonmember
    /\ LastOp = "reply_join"

AdminKinds == {"broadcast", "add_channel", "remove_channel", "list_channels", "send_csv"}

\* C3 as written: while a user has no language, every command or message of
\* theirs, the admin commands included, ends with the language picker: no
\* membership query, no admin action, no download.
C3_PickerForEveryCommand ==
    (ev.kind \in {"start", "message"} \cup AdminKinds /\ user_languages[ev.user] = "none") =>
        ev.ops \in {<<"reply_picker">>, <<"register_user", "reply_picker">>}

\* C3, amended: while a user has no language, every /start and every text
\* message of theirs ends with the language picker, with no membership query
\* and no download; the admin commands are not language-gated and never show
\* the picker.
C3_PickerForStartAndMessage ==
    /\ (ev.kind \in {"start", "message"} /\ user_languages[ev.user] = "none") =>
          /\ LastOp = "reply_picker"
          /\ ~Did("get_unjoined_channels") /\ ~Downloads
          /\ ev.ops \in {<<"register_user", "reply_picker">>,
                         <<"register_user", "notify_new_user", "reply_picker">>}
    /\ ev.kind \in AdminKinds => ~Did("reply_picker")

\* C3's case: a user without a language sent a message and got the picker.
C3_Witness ==
    /\ ev.kind = "message" /\ user_languages[ev.user] = "none" /\ LastOp = "reply_picker"
    /\ \E u \in Users : user_languages[u] # "none"

\* C4: no user id is twice in the registry, whatever the events; a
\* register_user call returns True exactly when the id was not there, and
\* leaves the id there once.
C4_RegistryUnique ==
    /\ NoDup(csv)
    /\ [][/\ NoDup(csv')
          /\ ev'.is_new <=> ~is_user_registered(csv, ev'.user)
          /\ Cardinality({i \in 1..Len(csv') : csv'[i] = ev'.user}) = 1]_vars

\* C4's case: a user who was registered already was handled again.
C4_Witness ==
    /\ ev.kind = "check" /\ ~ev.is_new
    /\ Len(csv) = Cardinality(Users)
    /\ \E u \in Users : u # ev.user /\ u \in passed

\* C5: in every reachable state the persisted sponsor list holds no two
\* entries with the same normalized form (the identifier without its "@").
C5_NoDuplicateChannels ==
    \A i, j \in 1..Len(channels_file.channels) :
        lstrip_at(channels_file.channels[i]) = lstrip_at(channels_file.channels[j]) => i = j

\* C6: an admin command from anyone but the configured administrator (or with
\* none configured) only answers "not authorized": the sponsor list, the
\* registry, the language map and the files stay as they are, nothing is sent
\* to anyone else and no file is transmitted.
C6_NonAdminNoEffect ==
    [][(ev'.kind \in AdminKinds /\ (ADMIN_USER_ID = NoAdmin \/ ev'.user # ADMIN_USER_ID)) =>
          /\ ev'.ops = <<"reply_unauthorized">>
          /\ ev'.sends = <<>>
          /\ channels_file' = channels_file
          /\ csv' = csv
          /\ user_languages' = user_languages
          /\ files' = files]_vars

\* C6's case: with an administrator configured, someone else tried to remove
\* a listed channel and was refused.
C6_Witness ==
    /\ ev.kind = "remove_channel" /\ ADMIN_USER_ID # NoAdmin /\ ev.user # ADMIN_USER_ID
    /\ ev.ops = <<"reply_unauthorized">>
    /\ ev.ch \in Range(channels_file.channels)
    /\ csv # <<>>

SendFailed == ev.kind = "message" /\ Did("send_audio") /\ ~ev.transmitted

\* C7 as written: when the adapter produced a file and sending the audio
\* fails, the request does not delete the file and the final status is the
\* send-failed notice.
C7_SendFailedNotice ==
    SendFailed =>
        /\ ev.path \in files /\ ~Did("os_remove")
        /\ ev.status = "send_failed"

\* C7, amended: in that case the request does not delete the file and
\* attempts the send-failed notice, never the success or download-failed
\* notice; the send-failed notice is the final status unless that edit itself
\* raises, and then the generic error notice is attempted.
C7_SendFailedKeepsFile ==
    SendFailed =>
        /\ ev.path \in files /\ ~Did("os_remove")
        /\ Did("edit_send_failed") /\ ~Did("edit_success") /\ ~Did("edit_download_failed")
        /\ ev.status \in {"send_failed", "error", "downloading"}
        /\ ev.status # "send_failed" => Did("edit_error")

\* C7's case: the send failed, the file is kept and the notice is shown.
C7_Witness == SendFailed /\ ev.status = "send_failed" /\ ev.path \in files

\* C8: when the adapter produced a file and the audio was sent, the file is
\* deleted and the final status is the success notice; the send-failed notice
\* is never the final status of a sent request, and success is never shown
\* with the file still on disk.
C8_SentDeletesAndSucceeds ==
    (ev.kind = "message" /\ ev.transmitted) =>
        /\ ev.path \notin files
        /\ ev.status = "success"

\* C9: an admin /broadcast with a text attempts one send per registry id, in
\* registry order, goes on after a failing send, and reports a tally with
\* sent + failed = the number of ids and failed = the number of sends that
\* raised.
C9_BroadcastReachesAll ==
    (ev.kind = "broadcast" /\ ev.user = ADMIN_USER_ID /\ ev.arg = "text") =>
        /\ Len(ev.sends) = Len(csv)
        /\ \A i \in 1..Len(csv) : ev.sends[i].to = csv[i]
        /\ ev.sent + ev.failed = Len(csv)
        /\ ev.failed = Cardinality({i \in 1..Len(ev.sends) : ~ev.sends[i].ok})
        /\ LastOp = "edit_tally"

\* C9's case: three users, the second send raises, the third is still made.
C9_Witness ==
    /\ ev.kind = "broadcast" /\ Len(csv) = 3 /\ Len(ev.sends) = 3
    /\ ev.sends[1].ok /\ ~ev.sends[2].ok /\ ev.sends[3].ok
    /\ ev.sent = 2 /\ ev.failed = 1

RECURSIVE IsSubseq(_, _)
\* r can be had from s by dropping entries.
IsSubseq(r, s) ==
    IF r = <<>> THEN TRUE
    ELSE IF s = <<>> THEN FALSE
    ELSE IF Head(r) = Head(s) THEN IsSubseq(Tail(r), Tail(s))
    ELSE IsSubseq(r, Tail(s))

\* The entries of the list whose outcome sends them to the unjoined list.
Unjoined(chs, oc) == {chs[i] : i \in {k \in 1..Len(chs) : appends_unjoined(oc[k])}}

\* C10: for every sponsor list and every combination of outcomes,
\* get_unjoined_channels returns a subsequence of the list, in the list's
\* order, no longer than the list, with no channel that is not in it.
C10_UnjoinedIsSubsequence ==
    ev.kind = "query" =>
        /\ IsSubseq(ev.unjoined, channels_file.channels)
        /\ Len(ev.unjoined) <= Len(channels_file.channels)
        /\ Range(ev.unjoined) \subseteq Range(channels_file.channels)
        /\ Range(ev.unjoined) = Unjoined(channels_file.channels, ev.outcomes)

\* C10's case: two different channels, both unjoined, one of them through
\* the fallback after the "inaccessible" error.
C10_Witness ==
    /\ ev.kind = "query" /\ Len(ev.unjoined) = 2 /\ ev.unjoined[1] # ev.unjoined[2]
    /\ \E i \in 1..2 : ev.outcomes[i].res = "inaccessible"

\* The channel at position i stands nowhere else in the list, so that it is in
\* the result only if position i put it there.
OnlyAt(chs, i) == \A j \in 1..Len(chs) : chs[j] = chs[i] => j = i

\* C11: when the query for a channel is answered, the channel is reported as
\* unjoined exactly when the status is none of creator, administrator and
\* member, except that 'restricted' counts as joined if and only if the user
\* can still send messages; left and kicked are unjoined.
C11_StatusDecidesUnjoined ==
    ev.kind = "query" =>
        \A i \in 1..Len(channels_file.channels) :
            (ev.outcomes[i].res = "status" /\ OnlyAt(channels_file.channels, i)) =>
                LET o == ev.outcomes[i]
                    joined == IF o.status = "restricted" THEN o.can_send
                              ELSE o.status \in {"creator", "administrator", "member"}
                IN  (channels_file.channels[i] \in Range(ev.unjoined)) <=> ~joined

\* C11's case: of two channels the user is restricted in, the one where they
\* can still send is joined and the other is not.
C11_Witness ==
    /\ ev.kind = "query" /\ Len(channels_file.channels) = 2
    /\ ev.outcomes[1] = Answer("restricted", TRUE)
    /\ ev.outcomes[2] = Answer("restricted", FALSE)
    /\ ev.unjoined = <<channels_file.channels[2]>>
    /\ channels_file.channels[1] # channels_file.channels[2]

\* The admin's command with an argument, as the next event.
AdminDoes(kind) ==
    /\ ev'.kind = kind /\ ev'.ch # NoArg
    /\ ADMIN_USER_ID # NoAdmin /\ ev'.user = ADMIN_USER_ID

\* Some entry of the list has the normalized form of x.
Listed(l, x) == \E i \in 1..Len(l) : lstrip_at(l[i]).name = lstrip_at(x).name

\* C12: /add_channel x by the admin leaves the persisted list exactly as it
\* was and answers "already in the list" when some entry has the normalized
\* form of x; otherwise the new persisted list is the old one with x appended
\* at the end.  Adding x once more then changes nothing.
C12_AddAppendsOnce ==
    [][AdminDoes("add_channel") =>
          /\ IF Listed(channels_file.channels, ev'.ch)
             THEN /\ channels_file' = channels_file
                  /\ LastOp' = "reply_already"
             ELSE /\ channels_file'.channels = Append(channels_file.channels, ev'.ch)
                  /\ LastOp' = "reply_added"
          /\ LET again == add_channel_command(ev'.user, ev'.ch, channels_file'.channels)
             IN  /\ again.list = channels_file'.channels
                 /\ ~again.saved]_vars

\* C12's case: the list is [-1001, @a] and the admin adds "a".
C12_Witness ==
    /\ ev.kind = "add_channel" /\ LastOp = "reply_already"
    /\ ev.ch = [at |-> FALSE, name |-> "a"]
    /\ channels_file.channels = <<[at |-> FALSE, name |-> "-1001"], [at |-> TRUE, name |-> "a"]>>

\* Adding an absent x to the duplicate-free list l and removing x again gives l.
AddThenRemove(l) ==
    NoDup([i \in 1..Len(l) |-> lstrip_at(l[i])]) =>
        \A x \in Entry :
            ~Listed(l, x) =>
                remove_channel_command(ADMIN_USER_ID, x,
                    add_channel_command(ADMIN_USER_ID, x, l).list).list = l

\* C13: /remove_channel x by the admin leaves the persisted list as it was and
\* answers "not found" when no entry has the normalized form of x; otherwise
\* the new persisted list is the old one without exactly the entries of that
\* normalized form, the others in their order.  On a duplicate-free list,
\* adding an absent x and removing it again restores the list.
C13_RemoveFilters ==
    /\ AddThenRemove(channels_file.channels)
    /\ [][/\ AddThenRemove(channels_file'.channels)
          /\ AdminDoes("remove_channel") =>
                LET old == channels_file.channels
                    new == channels_file'.channels
                    kept == {i \in 1..Len(old) : lstrip_at(old[i]).name # lstrip_at(ev'.ch).name}
                IN  IF ~Listed(old, ev'.ch)
                    THEN /\ channels_file' = channels_file
                         /\ LastOp' = "reply_not_found"
                    ELSE /\ IsSubseq(new, old)
                         /\ Len(new) = Cardinality(kept)
                         /\ ~\E i \in 1..Len(new) : lstrip_at(new[i]).name = lstrip_at(ev'.ch).name
                         /\ LastOp' = "reply_removed"]_vars

\* C13's case: the admin removes "a" and the entry stored as "@a" goes, the
\* other entry stays.
C13_Witness ==
    /\ ev.kind = "remove_channel" /\ LastOp = "reply_removed"
    /\ ev.ch = [at |-> FALSE, name |-> "a"]
    /\ channels_file.channels = <<[at |-> FALSE, name |-> "-1001"]>>

\* C14: while one user's message handler is suspended awaiting the download,
\* an event of any other user can still be handled; a download that never
\* returns keeps no other user's event from being processed.
C14_OthersHandledWhileSuspended ==
    Suspended => \A u \in Users \ {ev.user} : ENABLED StartDispatched(u)

\* C15: an artifact belongs to the one request that created it: the file a
\* request gets from the adapter, sends and deletes was not on local storage
\* before the request, where an earlier request would have left it.
C15_ArtifactOwnedByOneRequest ==
    [][(ev'.kind = "message" /\ ev'.path # "none") => ev'.path \notin files]_vars

\* C16 as written says that two first contacts of two unseen users can end
\* with both registrations completed and only one of the two ids in the
\* registry.  No such state is reachable (C16_NoLostUpdate), so in
\* particular two completed first contacts do not end that way.
C16_RaceLosesUpdate ==
    Cardinality(seen) = 2 =>
        Cardinality({u \in seen : is_user_registered(csv, u)}) = 1

\* C16, amended: register_user reads, appends and writes without suspending
\* and the dispatcher runs one handler at a time, so no registration is
\* lost: every user a handler has called register_user for is in the
\* registry, once, also while another user's request awaits its download.
C16_NoLostUpdate ==
    \A u \in seen : Cardinality({i \in 1..Len(csv) : csv[i] = u}) = 1

\* C16's case: two unseen users made their first contact one after the other,
\* the second after a request of the first had been through its download.
C16_Witness ==
    /\ seen = Users /\ Len(csv) = 2
    /\ ev.is_new /\ ev.user = 2 /\ csv = <<1, 2>>
    /\ files # {}

\* C17: once channels.json exists, only a successful /add_channel or
\* /remove_channel of the admin changes it: every other event and every read
\* of the list, a read that finds the file unreadable or malformed included,
\* leaves it as it is, and the seed of the configuration is not applied again.
C17_ListChangedOnlyByAddRemove ==
    [][(channels_file.exists /\ channels_file' # channels_file) =>
          /\ ev'.kind \in {"add_channel", "remove_channel"}
          /\ ev'.user = ADMIN_USER_ID
          /\ \E i \in 1..Len(ev'.ops) : ev'.ops[i] = "save_sponsor_channels"]_vars

\* C18: when the query for a channel fails with "Member list is
\* inaccessible", the checker looks at the bot's own status there: the user
\* counts as joined if the bot is creator or administrator, the channel is
\* reported as unjoined if the bot has any other status, and the user counts
\* as joined if the lookup of the bot's status fails too.
C18_InaccessibleFallsBackToBot ==
    ev.kind = "query" =>
        \A i \in 1..Len(channels_file.channels) :
            (ev.outcomes[i].res = "inaccessible" /\ OnlyAt(channels_file.channels, i)) =>
                LET b == ev.outcomes[i].bot
                    reported == channels_file.channels[i] \in Range(ev.unjoined)
                IN  /\ b \in {"creator", "administrator"} => ~reported
                    /\ b = "raise" => ~reported
                    /\ b \notin {"creator", "administrator", "raise"} => reported

\* C18's case: two channels with inaccessible member lists; the fallback
\* fails for the first, and finds the bot a plain member of the second.
C18_Witness ==
    /\ ev.kind = "query" /\ Len(channels_file.channels) = 2
    /\ ev.outcomes[1] = Inaccessible("raise")
    /\ ev.outcomes[2] = Inaccessible("member")
    /\ channels_file.channels[1] # channels_file.channels[2]
    /\ ev.unjoined = <<channels_file.channels[2]>>

\* C19: a query that fails with any other error never puts its channel on the
\* unjoined list and does not end the check: the channels after it are still
\* classified by their own outcomes, and get_unjoined_channels returns.  If
\* every query fails this way the result is empty and the gate is passed.
C19_OtherErrorsFailOpen ==
    ev.kind = "query" =>
        LET chs == channels_file.channels
            failed(i) == ev.outcomes[i].res = "error"
        IN  /\ \A i \in 1..Len(chs) :
                   (failed(i) /\ OnlyAt(chs, i)) => chs[i] \notin Range(ev.unjoined)
            /\ \A i \in 1..Len(chs) :
                   ((\E j \in 1..(i - 1) : failed(j)) /\ OnlyAt(chs, i)
                        /\ ev.outcomes[i] \in {Answer("left", FALSE), Answer("kicked", FALSE),
                                               Inaccessible("member")})
                   => chs[i] \in Range(ev.unjoined)
            /\ (\A i \in 1..Len(chs) : failed(i)) =>
                   ev.unjoined = <<>> /\ PassedGate(ev)

\* C19's case: the first query fails unexpectedly, the second finds that the
\* user has left; only the second channel is reported.
C19_Witness ==
    /\ ev.kind = "query" /\ Len(channels_file.channels) = 2
    /\ ev.outcomes[1] = OtherError
    /\ ev.outcomes[2] = Answer("left", FALSE)
    /\ channels_file.channels[1] # channels_file.channels[2]
    /\ ev.unjoined = <<channels_file.channels[2]>>

\* C20: an event from a user id that is not in the registry inserts the id
\* and, with a report channel configured, attempts the new-user notification
\* in that same event; no notification is attempted for an id that was
\* registered already; a failing notification is swallowed and the event goes
\* on to the language gate as it does after a successful one.
C20_FirstSightNotified ==
    [][LET new == ~is_user_registered(csv, ev'.user)
           notified == \E i \in 1..Len(ev'.ops) : ev'.ops[i] = "notify_new_user"
       IN  /\ new => is_user_registered(csv', ev'.user)
           /\ (new /\ REPORT_CHANNEL) => notified
           /\ ~new => ~notified
           /\ ev'.notify = "failed" =>
                 /\ ~ev'.raised
                 /\ ev'.ops[Len(ev'.ops)] = "reply_picker" \/ ev'.had_lang]_vars

\* The adapter was called for this message and gave no file.
DownloadFailed ==
    /\ ev.kind = "message" /\ Did("download_soundcloud")
    /\ ev.path = "none" /\ ~Suspended

\* The number of times the handler did x.
Count(x) == Cardinality({i \in 1..Len(ev.ops) : ev.ops[i] = x})

\* C21 as written: when the adapter reports failure, the request edits the
\* status to the download-failed notice and ends there: no audio is sent, no
\* file is deleted and the adapter was called exactly once.
C21_DownloadFailedNotice ==
    DownloadFailed =>
        /\ ev.status = "download_failed" /\ LastOp = "edit_download_failed"
        /\ ~Did("send_audio") /\ ~Did("os_remove")
        /\ Count("download_soundcloud") = 1

\* C21, amended: when the adapter reports failure, the request attempts the
\* download-failed notice, sends no audio, deletes no file and calls the
\* adapter exactly once; the download-failed notice is the final status
\* unless that edit itself raises, and then the generic error notice is
\* attempted before the request ends.
C21_DownloadFailedEndsRequest ==
    DownloadFailed =>
        /\ Count("edit_download_failed") = 1
        /\ ~Did("send_audio") /\ ~Did("os_remove")
        /\ ~Did("edit_success") /\ ~Did("edit_send_failed")
        /\ Count("download_soundcloud") = 1
        /\ IF LastOp = "edit_download_failed" THEN ev.status = "download_failed"
           ELSE /\ LastOp = "edit_error"
                /\ ev.ops[Len(ev.ops) - 1] = "edit_download_failed"
                /\ ev.status \in {"error", "downloading"}

\* C21's case: the adapter gave no file and the notice says so, while the
\* file of an earlier request is still on local storage.
C21_Witness ==
    /\ DownloadFailed /\ ev.status = "download_failed"
    /\ files # {}

\* C22: in every reachable state every recorded language is en or fa,
\* whatever callback data beginning with lang_ the language handler was
\* given, and so t never fails: it gives the text of the user's locale, else
\* that of the default locale, else the key, with en for a user who has no
\* language recorded.
C22_LanguagesAreEnOrFa ==
    \A u \in Users :
        /\ user_languages[u] \in {"none", "en", "fa"}
        /\ \A key \in Keys :
              LET lang == IF user_languages[u] = "none" THEN "en" ELSE user_languages[u]
              IN  /\ t(key, u) # KeyError
                  /\ key \in {"hello", "verified"} => t(key, u) = TRANSLATIONS[lang][key]
                  /\ key = "no_such_key" => t(key, u) = key

\* What the recheck renders, in the next state: the verified message exactly
\* when the unjoined list computed in this event is empty (so never for a
\* user the platform reports outside a channel), otherwise the join prompt
\* with a keyboard for that list; no download, no file touched.
RecheckRenders ==
    /\ files' = files
    /\ ~\E i \in 1..Len(ev'.ops) : ev'.ops[i] \in {"reply_downloading", "download_soundcloud"}
    /\ ev'.ops[Len(ev'.ops)] \in {"edit_verified", "edit_not_joined"}
    /\ ev'.ops[Len(ev'.ops)] = "edit_verified" <=> ev'.unjoined = <<>>
    /\ ev'.nonmember => ev'.ops[Len(ev'.ops)] = "edit_not_joined"
    /\ ev'.unjoined # <<>> =>
          /\ ev'.keyboard[Len(ev'.keyboard)] = [kind |-> "callback", target |-> "check_membership"]
          /\ \A i \in 1..(Len(ev'.keyboard) - 1) :
                /\ ev'.keyboard[i].kind = "url"
                /\ \E j \in 1..Len(ev'.unjoined) : ev'.unjoined[j].name = ev'.keyboard[i].target

\* C23 as written: the "I Joined" recheck leaves the registry, the language
\* map and the sponsor list as they are and starts no download; it renders
\* the verified message if and only if the unjoined list is empty at that
\* moment, and the join prompt with a fresh keyboard otherwise.
C23_RecheckOnlyGate ==
    [][ev'.kind = "check" =>
          /\ csv' = csv
          /\ user_languages' = user_languages
          /\ channels_file' = channels_file
          /\ RecheckRenders]_vars

\* C23, amended: the recheck leaves the language map and a readable sponsor
\* list as they are and starts no download, and renders as said; the registry
\* is unchanged for a registered sender, while the id of an unseen sender is
\* appended to it.
C23_RecheckRegistersThenGate ==
    [][ev'.kind = "check" =>
          /\ csv' = IF \E i \in 1..Len(csv) : csv[i] = ev'.user
                    THEN csv ELSE Append(csv, ev'.user)
          /\ user_languages' = user_languages
          /\ (channels_file.exists /\ channels_file.readable) => channels_file' = channels_file
          /\ RecheckRenders]_vars

\* C23's case: a user who had passed the gate presses "I Joined" after
\* leaving a channel and gets the join prompt again.
C23_Witness ==
    /\ ev.kind = "check" /\ LastOp = "edit_not_joined"
    /\ ev.user \in passed /\ ev.nonmember
    /\ Len(ev.keyboard) = 2

\* The join prompt was the last thing the handler showed.
JoinPrompt ==
    /\ ev.unjoined # <<>>
    /\ LastOp \in {"reply_join", "edit_join", "edit_not_joined"}

\* Handle-style identifiers are the ones that are not a numeric chat id.
IsHandle(c) == c.name \notin NumericNames

\* C24: the keyboard of a join prompt holds, in the order of the unjoined
\* list, one join-link button for every handle-style channel and none for a
\* numeric one, followed by exactly one re-check button as the last row; a
\* numeric channel is enforced all the same: a message from a user whose only
\* unjoined channel is numeric stops at the prompt, whose keyboard is the
\* re-check button alone.
C24_KeyboardSkipsNumeric ==
    JoinPrompt =>
        LET handles == SelectSeq(ev.unjoined, IsHandle)
            n == Len(handles)
        IN  /\ Len(ev.keyboard) = n + 1
            /\ \A i \in 1..n : ev.keyboard[i] = [kind |-> "url", target |-> handles[i].name]
            /\ ev.keyboard[n + 1] = [kind |-> "callback", target |-> "check_membership"]
            /\ (ev.kind = "message" /\ n = 0) => (LastOp = "reply_join" /\ ~Downloads)

\* C24's case: two handles around a numeric id are all unjoined, and the
\* prompt has a button for each handle, in their order, then the re-check.
C24_Witness ==
    /\ JoinPrompt
    /\ Len(ev.unjoined) = 3 /\ Len(ev.keyboard) = 3
    /\ ev.unjoined[2].name \in NumericNames
    /\ ev.keyboard[1].target = "b" /\ ev.keyboard[2].target = "a"

====
